---- MODULE Spec2Model ----
(***************************************************************************)
(* Document Sheet Registrar: the sheet candidate registry                  *)
(* (CONFIG[doc].sheetClasses) and the operations the registrar installs    *)
(* around it.  The repository holds successive revisions of the registrar; *)
(* the model follows the revision of scripts/document-sheet-registrar.js   *)
(* that starts at line 663, together with the DocumentSheetConfig wrapper  *)
(* of the later revision (static registerSheet(wrapped, ...args)).         *)
(*                                                                         *)
(* A bucket CONFIG[doc].sheetClasses[type] is a JavaScript object; it is   *)
(* modelled as the sequence of its values in property (insertion) order,   *)
(* which is the order Object.values() yields.                              *)
(*                                                                         *)
(* The host's EntitySheetConfig.registerSheet / unregisterSheet, to which   *)
(* the registrar delegates, are not part of the repository: they follow    *)
(* the register / unregister operations of the registry design.  Sheet ids *)
(* are `${scope}.${sheetClass.name}` in the host, so no registration call  *)
(* can name the id of a built-in candidate (the bare document name).       *)
(*                                                                         *)
(* The variable last records the most recent call with its arguments, its  *)
(* return value and whether it threw; it is an observation of the run, not *)
(* state of the program.                                                   *)
(*                                                                         *)
(* Five specifications share the variables.  Spec is the registrar alone.  *)
(* ShimSpec puts the Journal shim (a module with its own init hook) beside *)
(* it and adds the header-button handler.  HookSpec is the revision whose  *)
(* init hook is DocumentSheetRegistrar.init and which emits the hooks      *)
(* preDocumentSheetRegistrarInit and documentSheetRegistrarInit.           *)
(* RedirectSpec adds assignments to CONFIG[doc].sheetClass.  LoadSpec      *)
(* starts before the scripts are evaluated and follows the init callbacks  *)
(* in the order of their registration; the other four start when the      *)
(* callback of the libWrapper shim has run.                                *)
(***************************************************************************)
EXTENDS Integers, Sequences, FiniteSets, TLC

\* ------------------------------------------------------------------ bounds
\* Number of operations performed after the init hook.
MaxOps == 3

\* ------------------------------------------------------- host environment
BASE_ENTITY_TYPE == "base"

\* The value _getSheetClass returns when no sheet is found.
Null == "null"

\* The value of a flag that is not set.
Undefined == "undefined"

\* Keys of the host CONFIG the model follows.
DocNames == {"Actor", "Item", "JournalEntry", "Macro", "Combat"}

\* Documents whose sheetClasses table the host itself maintains.
HostSheetDocs == {"Actor", "Item"}

\* Document classes' declared types (doc.class.metadata.types); the host
\* declares an empty list for JournalEntry and none for Actor, Item, Combat.
metadata_types ==
  [d \in DocNames |->
     IF d = "Macro" THEN [given |-> TRUE, list |-> <<"script">>]
     ELSE IF d = "JournalEntry" THEN [given |-> TRUE, list |-> <<>>]
     ELSE [given |-> FALSE, list |-> <<>>]]

\* CONFIG[doc].collection is set for every document of the model.
\* CONFIG[doc].sheetClass as the host ships it (Null: not set).
HostSheetClass ==
  [d \in DocNames |-> IF d \in {"JournalEntry", "Macro"} THEN "core" ELSE Null]

\* The scripts of the package that register an init callback of their own
\* and use the libWrapper shim.
Modules == {"journal-sheet-shim", "document-sheet-registrar"}

\* Inputs of the operations.
\* Documents the registration calls of the model name: one the registrar
\* initializes and one without a sheetClasses table.
CallDocs == {"Macro", "Combat"}
SheetIds == {"A", "B"}
SheetClassValues == {"v1", "v2"}
TypeNames == {"base", "script", "my-type"}
\* options.types: absent, or a list (possibly empty).
TypeOptions ==
  { [given |-> FALSE, list |-> <<>>],
    [given |-> TRUE, list |-> <<>>],
    [given |-> TRUE, list |-> <<"my-type">>],
    [given |-> TRUE, list |-> <<"script", "my-type">>] }
\* options.types of the registrations for JournalEntry.
JournalTypeOptions ==
  { [given |-> FALSE, list |-> <<>>],
    [given |-> TRUE, list |-> <<"my-type">>] }
\* Values of the core.sheetClass flag of a document.
OverrideIds == SheetIds \cup {"Macro", Undefined}

VARIABLES
  sheetClasses,   \* CONFIG[doc].sheetClasses: doc -> type -> bucket; partial
  sheetClass,     \* CONFIG[doc].sheetClass as a plain data property
  redirected,     \* docs whose sheetClass is the accessor of redirectSheetClass
  registerSheetOn,\* docs whose collection has registerSheet / unregisterSheet
  getSheetClassOn,\* docs whose prototype._getSheetClass is the registrar's
  initDone,       \* the init hook (Hooks.once) has run
  apps,           \* docs whose document has an open sheet application
  last,           \* the last call: operation, arguments, outcome
  nops,           \* number of operations performed
  journalShim,    \* the init hook of the Journal shim: "pending", "installed", "skipped"
  hooks,          \* the library hooks emitted so far, with the argument passed
  typeGetterOn,   \* docs whose data class has the type getter of init
  wrapperOn,      \* the DocumentSheetConfig.registerSheet wrapper is registered
  buttons,        \* labels of the header buttons of the sheet being rendered
  loaded,         \* modules of the package whose script has been evaluated
  initCallbacks,  \* callbacks registered with Hooks.once for init, in order
  libWrapper,     \* the binding the libWrapper shim exports
  globalThis_libWrapper \* globalThis.libWrapper, set by other packages

vars == <<sheetClasses, sheetClass, redirected, registerSheetOn,
          getSheetClassOn, initDone, apps, last, nops, journalShim, hooks,
          typeGetterOn, wrapperOn, buttons, loaded, initCallbacks, libWrapper,
          globalThis_libWrapper>>

\* The variables of script loading and of the libWrapper shim.
loader == <<loaded, initCallbacks, libWrapper, globalThis_libWrapper>>

SeqToSet(s) == {s[i] : i \in 1..Len(s)}

Ids(bucket) == {bucket[i].id : i \in 1..Len(bucket)}

\* The candidate stored under key id of a bucket that has this key.
Entry(bucket, id) ==
  bucket[CHOOSE i \in 1..Len(bucket) : bucket[i].id = id]

NoCall ==
  [op |-> "load", doc |-> "", id |-> "", cls |-> "", makeDefault |-> FALSE,
   types |-> <<>>, given |-> FALSE, ret |-> "", threw |-> FALSE,
   flag |-> Undefined, data |-> Undefined, warned |-> FALSE,
   hook |-> "", closed |-> {}, again |-> FALSE]

HasTable(sc, doc) == doc \in DOMAIN sc

HasBucket(sc, doc, type) == HasTable(sc, doc) /\ type \in DOMAIN sc[doc]

\* Documents whose registration methods, table and _getSheetClass are those
\* of the Journal shim.
Shimmed == IF journalShim = "installed" THEN {"JournalEntry"} ELSE {}

Init ==
  /\ sheetClasses = [d \in HostSheetDocs |-> [t \in {BASE_ENTITY_TYPE} |-> <<>>]]
  /\ sheetClass = HostSheetClass
  /\ redirected = {}
  /\ registerSheetOn = HostSheetDocs
  /\ getSheetClassOn = {}
  /\ initDone = FALSE
  /\ apps = {}
  /\ last = NoCall
  /\ nops = 0
  /\ journalShim = "pending"
  /\ hooks = <<>>
  /\ typeGetterOn = {}
  /\ wrapperOn = FALSE
  /\ buttons = <<"Close">>
  /\ loaded = Modules
  /\ initCallbacks = <<>>
  /\ libWrapper = "fallback"
  /\ globalThis_libWrapper = Undefined

\* --------------------------------------------------------- initialization

\* CONFIG[doc].sheetClass as the code reads it: the plain property, or the
\* accessor redirectSheetClass defines.
SheetClassOf(sc, plain, redir, doc) ==
  IF doc \in redir
    THEN Entry(sc[doc][BASE_ENTITY_TYPE], doc).cls
    ELSE plain[doc]

\* Names of the documents in CONFIG with a sheetClass and a collection.
documentTypes ==
  {d \in DocNames : SheetClassOf(sheetClasses, sheetClass, redirected, d) # Null}

\* The bucket holding only the built-in sheet of the document.
configureSheetClassessByType(doc, cls) ==
  << [id |-> doc, default |-> TRUE, label |-> doc, cls |-> cls] >>

\* Variant: only the base bucket is created.
configureSheetClasses_BaseOnly(doc, cls) ==
  [t \in {BASE_ENTITY_TYPE} |-> configureSheetClassessByType(doc, cls)]

\* The sheetClasses object of a document after configureSheetClasses.
configureSheetClasses(doc, cls) ==
  [t \in SeqToSet(metadata_types[doc].list) \cup {BASE_ENTITY_TYPE} |->
     configureSheetClassessByType(doc, cls)]

\* Variant: documents that already have a registration method are
\* initialized like the others.
initializeDocumentSheets_NoSkip ==
  /\ ~initDone
  /\ LET todo == documentTypes IN
       /\ sheetClasses' =
            [d \in (DOMAIN sheetClasses) \cup todo |->
               IF d \in todo
                 THEN configureSheetClasses(d,
                        SheetClassOf(sheetClasses, sheetClass, redirected, d))
                 ELSE sheetClasses[d]]
       /\ registerSheetOn' = registerSheetOn \cup todo
       /\ getSheetClassOn' = getSheetClassOn \cup todo
       /\ redirected' = redirected \cup todo
       /\ last' = [NoCall EXCEPT !.op = "init"]
  /\ initDone' = TRUE
  /\ UNCHANGED <<sheetClass, apps, nops, journalShim, hooks, typeGetterOn, wrapperOn, buttons, loader>>

\* Variant: only documents that declare types of their own are initialized.
initializeDocumentSheets_TypedOnly ==
  /\ ~initDone
  /\ LET todo == {d \in documentTypes \ registerSheetOn :
                    Len(metadata_types[d].list) > 0} IN
       /\ sheetClasses' =
            [d \in (DOMAIN sheetClasses) \cup todo |->
               IF d \in todo
                 THEN configureSheetClasses(d,
                        SheetClassOf(sheetClasses, sheetClass, redirected, d))
                 ELSE sheetClasses[d]]
       /\ registerSheetOn' = registerSheetOn \cup todo
       /\ getSheetClassOn' = getSheetClassOn \cup todo
       /\ redirected' = redirected \cup todo
       /\ last' = [NoCall EXCEPT !.op = "init"]
  /\ initDone' = TRUE
  /\ UNCHANGED <<sheetClass, apps, nops, journalShim, hooks, typeGetterOn, wrapperOn, buttons, loader>>

\* The init hook: every document type without a registration method gets
\* its type getter, _getSheetClass override, registration methods, a fresh
\* sheetClasses table and the sheetClass accessor.
initializeDocumentSheets ==
  /\ ~initDone
  /\ LET todo == documentTypes \ registerSheetOn IN
       /\ sheetClasses' =
            [d \in (DOMAIN sheetClasses) \cup todo |->
               IF d \in todo
                 THEN configureSheetClasses(d,
                        SheetClassOf(sheetClasses, sheetClass, redirected, d))
                 ELSE sheetClasses[d]]
       /\ registerSheetOn' = registerSheetOn \cup todo
       /\ getSheetClassOn' = getSheetClassOn \cup todo
       /\ redirected' = redirected \cup todo
       /\ last' = [NoCall EXCEPT !.op = "init"]
  /\ initDone' = TRUE
  /\ UNCHANGED <<sheetClass, apps, nops, journalShim, hooks, typeGetterOn, wrapperOn, buttons, loader>>

\* Variant: a later call initializes every document again.
callInitializeDocumentSheets_NoSkip ==
  /\ initDone
  /\ nops < MaxOps
  /\ LET todo == documentTypes IN
       /\ sheetClasses' =
            [d \in (DOMAIN sheetClasses) \cup todo |->
               IF d \in todo
                 THEN configureSheetClasses(d,
                        SheetClassOf(sheetClasses, sheetClass, redirected, d))
                 ELSE sheetClasses[d]]
       /\ registerSheetOn' = registerSheetOn \cup todo
       /\ getSheetClassOn' = getSheetClassOn \cup todo
       /\ redirected' = redirected \cup todo
       /\ last' = [NoCall EXCEPT !.op = "init"]
  /\ nops' = nops + 1
  /\ UNCHANGED <<sheetClass, initDone, apps, journalShim, hooks, typeGetterOn,
                 wrapperOn, buttons, loader>>

\* DocumentSheetRegistrar.initializeDocumentSheets() called once more, after
\* the init hook: the same loop, over the documents as they are then.
callInitializeDocumentSheets ==
  /\ initDone
  /\ nops < MaxOps
  /\ LET todo == documentTypes \ registerSheetOn IN
       /\ sheetClasses' =
            [d \in (DOMAIN sheetClasses) \cup todo |->
               IF d \in todo
                 THEN configureSheetClasses(d,
                        SheetClassOf(sheetClasses, sheetClass, redirected, d))
                 ELSE sheetClasses[d]]
       /\ registerSheetOn' = registerSheetOn \cup todo
       /\ getSheetClassOn' = getSheetClassOn \cup todo
       /\ redirected' = redirected \cup todo
       /\ last' = [NoCall EXCEPT !.op = "init"]
  /\ nops' = nops + 1
  /\ UNCHANGED <<sheetClass, initDone, apps, journalShim, hooks, typeGetterOn,
                 wrapperOn, buttons, loader>>

\* ------------------------------------------------------ host collaborator

\* bucket[id] = cand: a new key goes last, an existing key keeps its place.
Put(bucket, cand) ==
  IF cand.id \in Ids(bucket)
    THEN [i \in 1..Len(bucket) |->
            IF bucket[i].id = cand.id THEN cand ELSE bucket[i]]
    ELSE Append(bucket, cand)

\* delete bucket[id]
Delete(bucket, id) == SelectSeq(bucket, LAMBDA c : c.id # id)

\* The types the host registers or unregisters for: the list given, or the
\* single base type.
HostTypes(opt) ==
  IF opt.given /\ Len(opt.list) > 0 THEN opt.list ELSE <<BASE_ENTITY_TYPE>>

\* The host's registerSheet: the candidate is stored under its id in the
\* bucket of every type of the list; nothing happens for a document without
\* a table and for a type without a bucket.
HostRegisterSheet(sc, doc, id, cls, makeDefault, opt) ==
  IF ~HasTable(sc, doc) THEN sc
  ELSE [sc EXCEPT ![doc] =
          [t \in DOMAIN sc[doc] |->
             IF t \in SeqToSet(HostTypes(opt))
               THEN Put(sc[doc][t],
                        [id |-> id, default |-> makeDefault,
                         label |-> id, cls |-> cls])
               ELSE sc[doc][t]]]

\* The host's unregisterSheet: the id is removed from the bucket of every
\* type of the list.
HostUnregisterSheet(sc, doc, id, opt) ==
  IF ~HasTable(sc, doc) THEN sc
  ELSE [sc EXCEPT ![doc] =
          [t \in DOMAIN sc[doc] |->
             IF t \in SeqToSet(HostTypes(opt))
               THEN Delete(sc[doc][t], id)
               ELSE sc[doc][t]]]

\* ------------------------------------------------------------ registration

\* Variant: the types of the options are not looked at.
WrapperTypes_DeclaredOnly(doc, opt) ==
  IF metadata_types[doc].given THEN metadata_types[doc].list
  ELSE <<BASE_ENTITY_TYPE>>

\* const types = options?.types || classRef.metadata?.types || [base]
WrapperTypes(doc, opt) ==
  IF opt.given THEN opt.list
  ELSE IF metadata_types[doc].given THEN metadata_types[doc].list
  ELSE <<BASE_ENTITY_TYPE>>

\* Variant: the wrapper creates no bucket.
EnsureBuckets_None(sc, doc, types) == sc

\* The loop of the wrapper: an empty bucket for every type that has none.
EnsureBuckets(sc, doc, types) ==
  [sc EXCEPT ![doc] =
     [t \in (DOMAIN sc[doc]) \cup SeqToSet(types) |->
        IF t \in DOMAIN sc[doc] THEN sc[doc][t] ELSE <<>>]]

\* The loop reads CONFIG[doc].sheetClasses for every type of the list: a
\* TypeError when the document has no table and the list is not empty.
WrapperThrows(sc, doc, types) == ~HasTable(sc, doc) /\ Len(types) > 0

\* The registry after the wrapper and the call it delegates to.
RegisterResult(sc, doc, id, cls, makeDefault, opt) ==
  IF WrapperThrows(sc, doc, WrapperTypes(doc, opt)) THEN sc
  ELSE HostRegisterSheet(
         IF HasTable(sc, doc)
           THEN EnsureBuckets(sc, doc, WrapperTypes(doc, opt)) ELSE sc,
         doc, id, cls, makeDefault, opt)

Call(op, doc, id, cls, makeDefault, opt, ret, threw) ==
  [op |-> op, doc |-> doc, id |-> id, cls |-> cls, makeDefault |-> makeDefault,
   types |-> opt.list, given |-> opt.given, ret |-> ret, threw |-> threw,
   flag |-> Undefined, data |-> Undefined, warned |-> FALSE,
   hook |-> "", closed |-> {}, again |-> FALSE]

\* doc.collection.registerSheet(scope, sheetClass, options), the method
\* addRegistrationMethods puts on the collection.
registerSheet(doc, id, cls, makeDefault, opt) ==
  /\ initDone
  /\ nops < MaxOps
  /\ doc \in registerSheetOn \ (HostSheetDocs \cup Shimmed)
  /\ sheetClasses' = RegisterResult(sheetClasses, doc, id, cls, makeDefault, opt)
  /\ last' = Call("register", doc, id, cls, makeDefault, opt, "", FALSE)
  /\ nops' = nops + 1
  /\ UNCHANGED <<sheetClass, redirected, registerSheetOn, getSheetClassOn,
                 initDone, apps, journalShim, hooks, typeGetterOn, wrapperOn, buttons, loader>>

\* DocumentSheetConfig.registerSheet(documentClass, scope, sheetClass,
\* options) through the registrar's wrapper, for any document class.
DocumentSheetConfig_registerSheet(doc, id, cls, makeDefault, opt) ==
  /\ initDone
  /\ nops < MaxOps
  /\ sheetClasses' = RegisterResult(sheetClasses, doc, id, cls, makeDefault, opt)
  /\ last' = Call("register", doc, id, cls, makeDefault, opt, "",
                  WrapperThrows(sheetClasses, doc, WrapperTypes(doc, opt)))
  /\ nops' = nops + 1
  /\ UNCHANGED <<sheetClass, redirected, registerSheetOn, getSheetClassOn,
                 initDone, apps, journalShim, hooks, typeGetterOn, wrapperOn, buttons, loader>>

\* Variant: the id is removed from every bucket of the document.
unregisterSheet_AllTypes(doc, id, opt) ==
  /\ initDone
  /\ nops < MaxOps
  /\ doc \in registerSheetOn
  /\ sheetClasses' =
       HostUnregisterSheet(sheetClasses, doc, id,
                           [given |-> TRUE, list |-> <<"base", "script", "my-type">>])
  /\ last' = Call("unregister", doc, id, "", FALSE, opt, "", FALSE)
  /\ nops' = nops + 1
  /\ UNCHANGED <<sheetClass, redirected, registerSheetOn, getSheetClassOn,
                 initDone, apps, journalShim, hooks, typeGetterOn, wrapperOn, buttons, loader>>

\* Variant: the options are not passed on to the host.
unregisterSheet_NoOptions(doc, id, opt) ==
  /\ initDone
  /\ nops < MaxOps
  /\ doc \in registerSheetOn
  /\ sheetClasses' =
       HostUnregisterSheet(sheetClasses, doc, id, [given |-> FALSE, list |-> <<>>])
  /\ last' = Call("unregister", doc, id, "", FALSE, opt, "", FALSE)
  /\ nops' = nops + 1
  /\ UNCHANGED <<sheetClass, redirected, registerSheetOn, getSheetClassOn,
                 initDone, apps, journalShim, hooks, typeGetterOn, wrapperOn, buttons, loader>>

\* doc.collection.unregisterSheet(scope, sheetClass, options)
unregisterSheet(doc, id, opt) ==
  /\ initDone
  /\ nops < MaxOps
  /\ doc \in registerSheetOn
  /\ sheetClasses' = HostUnregisterSheet(sheetClasses, doc, id, opt)
  /\ last' = Call("unregister", doc, id, "", FALSE, opt, "", FALSE)
  /\ nops' = nops + 1
  /\ UNCHANGED <<sheetClass, redirected, registerSheetOn, getSheetClassOn,
                 initDone, apps, journalShim, hooks, typeGetterOn, wrapperOn, buttons, loader>>

\* ---------------------------------------------------------- sheet lookup

\* A value the || operator passes over: not set, or the empty string.
Falsy(v) == v \in {Undefined, ""}

\* The type getter setupTypes defines on the document class:
\* flags[name].type || data.type || base.
type(flagType, dataType) ==
  IF ~Falsy(flagType) THEN flagType
  ELSE IF ~Falsy(dataType) THEN dataType
  ELSE BASE_ENTITY_TYPE

\* Variant: the last candidate flagged default.
FindDefault_Last(classes) ==
  LET flagged == {i \in 1..Len(classes) : classes[i].default}
  IN  classes[CHOOSE i \in flagged : \A j \in flagged : i >= j]

\* classes.find(s => s.default): the first candidate flagged default.
FindDefault(classes) ==
  LET flagged == {i \in 1..Len(classes) : classes[i].default}
  IN  classes[CHOOSE i \in flagged : \A j \in flagged : i <= j]

\* Variant: a flagged default is preferred to the override.
_getSheetClass_DefaultFirst(sc, documentName, t, override) ==
  LET sheets == IF t \in DOMAIN sc[documentName]
                  THEN sc[documentName][t] ELSE <<>>
  IN  IF Len(sheets) = 0 THEN Null
      ELSE IF \E i \in 1..Len(sheets) : sheets[i].default
        THEN FindDefault(sheets).cls
        ELSE IF override \in Ids(sheets) THEN Entry(sheets, override).cls
        ELSE sheets[Len(sheets)].cls

\* Variant: the override is looked up in every bucket of the document.
_getSheetClass_AnyBucket(sc, documentName, t, override) ==
  LET sheets == IF t \in DOMAIN sc[documentName]
                  THEN sc[documentName][t] ELSE <<>>
      holders == {u \in DOMAIN sc[documentName] :
                    override \in Ids(sc[documentName][u])}
  IN  IF holders # {}
        THEN Entry(sc[documentName][CHOOSE u \in holders : TRUE], override).cls
      ELSE IF Len(sheets) = 0 THEN Null
      ELSE IF \E i \in 1..Len(sheets) : sheets[i].default
        THEN FindDefault(sheets).cls
        ELSE sheets[Len(sheets)].cls

\* Variant: without a flagged default the first candidate is taken.
_getSheetClass_Shift(sc, documentName, t, override) ==
  LET sheets == IF t \in DOMAIN sc[documentName]
                  THEN sc[documentName][t] ELSE <<>>
  IN  IF override \in Ids(sheets) THEN Entry(sheets, override).cls
      ELSE IF Len(sheets) = 0 THEN Null
      ELSE IF \E i \in 1..Len(sheets) : sheets[i].default
        THEN FindDefault(sheets).cls
        ELSE sheets[1].cls

\* Variant: a type without candidates falls back to the base bucket.
_getSheetClass_BaseFallback(sc, documentName, t, override) ==
  LET own == IF t \in DOMAIN sc[documentName]
               THEN sc[documentName][t] ELSE <<>>
      sheets == IF Len(own) = 0
                  THEN sc[documentName][BASE_ENTITY_TYPE] ELSE own
  IN  IF override \in Ids(sheets) THEN Entry(sheets, override).cls
      ELSE IF Len(sheets) = 0 THEN Null
      ELSE IF \E i \in 1..Len(sheets) : sheets[i].default
        THEN FindDefault(sheets).cls
        ELSE sheets[Len(sheets)].cls

\* _getSheetClass of a document with the given name, type and
\* core.sheetClass flag.
_getSheetClass(sc, documentName, t, override) ==
  LET sheets == IF t \in DOMAIN sc[documentName]
                  THEN sc[documentName][t] ELSE <<>>
  IN  IF override \in Ids(sheets) THEN Entry(sheets, override).cls
      ELSE IF Len(sheets) = 0 THEN Null
      ELSE IF \E i \in 1..Len(sheets) : sheets[i].default
        THEN FindDefault(sheets).cls
        ELSE sheets[Len(sheets)].cls

\* Variant: no warning, as in the revisions that only return null.
warn_Never(sc, documentName, t, override) == FALSE

\* ui.notifications.warn in _getSheetClass: reached when the override names
\* no sheet of the bucket and the bucket has no sheet at all.
warn(sc, documentName, t, override) ==
  LET sheets == IF t \in DOMAIN sc[documentName]
                  THEN sc[documentName][t] ELSE <<>>
  IN  override \notin Ids(sheets) /\ Len(sheets) = 0

\* Variant: the candidate the fallback takes without a flagged default is
\* removed from the bucket itself.
pop_InPlace(sc, documentName, t, override) ==
  IF /\ t \in DOMAIN sc[documentName]
     /\ Len(sc[documentName][t]) > 0
     /\ override \notin Ids(sc[documentName][t])
     /\ \A i \in 1..Len(sc[documentName][t]) : ~sc[documentName][t][i].default
    THEN [sc EXCEPT ![documentName][t] =
            SubSeq(sc[documentName][t], 1, Len(sc[documentName][t]) - 1)]
    ELSE sc

\* The registry after _getSheetClass: classes is Object.values(sheets), a
\* new array, so classes.pop() takes nothing out of the bucket.
pop(sc, documentName, t, override) == sc

\* document._getSheetClass() on a document of a type the registrar handles.
\* again: the call repeats the call before it.
getSheetClass(doc, flagType, dataType, override) ==
  /\ initDone
  /\ nops < MaxOps
  /\ doc \in getSheetClassOn
  /\ last' = [Call("resolve", doc, override, "", FALSE,
                   [given |-> TRUE, list |-> <<type(flagType, dataType)>>],
                   _getSheetClass(sheetClasses, doc, type(flagType, dataType),
                                  override),
                   FALSE) EXCEPT !.id = override, !.flag = flagType,
                                 !.data = dataType,
                                 !.warned = warn(sheetClasses, doc,
                                                 type(flagType, dataType),
                                                 override),
                                 !.again = /\ last.op = "resolve"
                                           /\ last.doc = doc
                                           /\ last.flag = flagType
                                           /\ last.data = dataType
                                           /\ last.id = override]
  /\ sheetClasses' = pop(sheetClasses, doc, type(flagType, dataType), override)
  /\ nops' = nops + 1
  /\ UNCHANGED <<sheetClass, redirected, registerSheetOn,
                 getSheetClassOn, initDone, apps, journalShim, hooks, typeGetterOn, wrapperOn, buttons, loader>>

\* ------------------------------------------------------------ set default

\* The documents updateDefaultSheets goes through.
UpdatedDocuments == {"Actor", "Item"} \cup documentTypes

\* Variant: the requested sheet is flagged, its siblings are left alone.
SetDefaultIn_NoClear(bucket, sheetId) ==
  [i \in 1..Len(bucket) |->
     IF bucket[i].id = sheetId
       THEN [bucket[i] EXCEPT !.default = TRUE] ELSE bucket[i]]

\* Variant: the flags are rewritten whether or not sheetId is found.
SetDefaultIn_Always(bucket, sheetId) ==
  [i \in 1..Len(bucket) |->
     [bucket[i] EXCEPT !.default = (bucket[i].id = sheetId)]]

\* sheets.forEach(s => s.default = s.id === sheetId), when sheetId is found.
SetDefaultIn(bucket, sheetId) ==
  IF sheetId \in Ids(bucket)
    THEN [i \in 1..Len(bucket) |->
            [bucket[i] EXCEPT !.default = (bucket[i].id = sheetId)]]
    ELSE bucket

\* Variant: a bucket is created for a type of the setting that has none.
UpdateDefaults_CreatesBucket(sc, docs, setting) ==
  IF DOMAIN setting = {} THEN sc
  ELSE [d \in DOMAIN sc |->
          IF d \in docs /\ d \in DOMAIN setting
            THEN [t \in (DOMAIN sc[d]) \cup (DOMAIN setting[d]) |->
                    IF t \notin DOMAIN sc[d] THEN <<>>
                    ELSE IF t \in DOMAIN setting[d]
                      THEN SetDefaultIn(sc[d][t], setting[d][t])
                      ELSE sc[d][t]]
            ELSE sc[d]]

\* The registry after updateDefaultSheets(setting); setting maps document
\* names to maps from type to sheet id.
UpdateDefaults(sc, docs, setting) ==
  IF DOMAIN setting = {} THEN sc
  ELSE [d \in DOMAIN sc |->
          IF d \in docs /\ d \in DOMAIN setting
            THEN [t \in DOMAIN sc[d] |->
                    IF t \in DOMAIN setting[d]
                      THEN SetDefaultIn(sc[d][t], setting[d][t])
                      ELSE sc[d][t]]
            ELSE sc[d]]

NoOptions == [given |-> FALSE, list |-> <<>>]

\* Settings: empty, or one sheet id for one type of one document.
Settings ==
  {<<>>} \cup
  {[d \in {doc} |-> [t \in {ty} |-> id]] :
     doc \in CallDocs, ty \in TypeNames, id \in SheetIds \cup {"Macro"}}

\* Variant: only the applications of the documents the setting names are
\* closed.
CloseApps_NamedOnly(open, docs, setting) ==
  IF DOMAIN setting = {} THEN open ELSE open \ (docs \cap DOMAIN setting)

\* The open applications after updateDefaultSheets(setting): with a
\* setting that is not empty, those of every document gone through are
\* closed and dropped.
CloseApps(open, docs, setting) ==
  IF DOMAIN setting = {} THEN open ELSE open \ docs

updateDefaultSheets(setting) ==
  /\ initDone
  /\ nops < MaxOps
  /\ sheetClasses' = UpdateDefaults(sheetClasses, UpdatedDocuments, setting)
  /\ apps' = CloseApps(apps, UpdatedDocuments, setting)
  /\ last' = IF DOMAIN setting = {}
               THEN Call("setDefault", "", "", "", FALSE, NoOptions, "", FALSE)
               ELSE LET d == CHOOSE x \in DOMAIN setting : TRUE
                        t == CHOOSE x \in DOMAIN setting[d] : TRUE
                    IN  [Call("setDefault", d, setting[d][t], "", FALSE,
                              [given |-> TRUE, list |-> <<t>>], "", FALSE)
                           EXCEPT !.closed = apps \ apps']
  /\ nops' = nops + 1
  /\ UNCHANGED <<sheetClass, redirected, registerSheetOn, getSheetClassOn,
                 initDone, journalShim, hooks, typeGetterOn, wrapperOn, buttons, loader>>

\* ------------------------------------------------------------------- host

\* Documents whose sheet the model opens.
RenderDocs == {"Actor", "Macro"}

\* The host renders the sheet of a document: the application is entered in
\* document.apps.
renderSheet(doc) ==
  /\ initDone
  /\ nops < MaxOps
  /\ doc \notin apps
  /\ apps' = apps \cup {doc}
  /\ last' = Call("render", doc, "", "", FALSE, NoOptions, "", FALSE)
  /\ nops' = nops + 1
  /\ UNCHANGED <<sheetClasses, sheetClass, redirected, registerSheetOn,
                 getSheetClassOn, initDone, journalShim, hooks, typeGetterOn, wrapperOn, buttons, loader>>

\* ------------------------------------------------- CONFIG[doc].sheetClass

\* Variant: the setter of the accessor writes the built-in sheet of every
\* bucket.
AssignSheetClass_AllBuckets(sc, doc, value) ==
  [sc EXCEPT ![doc] =
     [t \in DOMAIN sc[doc] |->
        [i \in 1..Len(sc[doc][t]) |->
           IF sc[doc][t][i].id = doc
             THEN [sc[doc][t][i] EXCEPT !.cls = value]
             ELSE sc[doc][t][i]]]]

\* The setter of the accessor redirectSheetClass defines:
\* sheetClasses[base][doc.name].cls = value.
AssignSheetClass(sc, doc, value) ==
  [sc EXCEPT ![doc][BASE_ENTITY_TYPE] =
     [i \in 1..Len(sc[doc][BASE_ENTITY_TYPE]) |->
        IF sc[doc][BASE_ENTITY_TYPE][i].id = doc
          THEN [sc[doc][BASE_ENTITY_TYPE][i] EXCEPT !.cls = value]
          ELSE sc[doc][BASE_ENTITY_TYPE][i]]]

\* CONFIG[doc].sheetClass = value: through the setter where the accessor is
\* defined, a plain property write elsewhere. The write adds nothing to the
\* registry, so it is not counted among the operations of a run.
setSheetClass(doc, value) ==
  /\ initDone
  /\ IF doc \in redirected
       THEN /\ sheetClasses' = AssignSheetClass(sheetClasses, doc, value)
            /\ UNCHANGED sheetClass
       ELSE /\ sheetClass' = [sheetClass EXCEPT ![doc] = value]
            /\ UNCHANGED sheetClasses
  /\ last' = [NoCall EXCEPT !.op = "assign", !.doc = doc, !.cls = value]
  /\ UNCHANGED <<nops, redirected, registerSheetOn, getSheetClassOn, initDone, apps,
                 journalShim, hooks, typeGetterOn, wrapperOn, buttons, loader>>

\* ----------------------------------------------------------- Journal shim

\* The Journal shim, a module of its own ("_extended-journal-sheets") with
\* its own init hook: Journal.registerSheet ? null : _initializeJournalSheetShim()
\* gives JournalEntry documents the fixed type "base", its own _getSheetClass
\* override, Journal.registerSheet / unregisterSheet and a table holding the
\* built-in sheet under the id "JournalSheet".
_initializeJournalSheetShim ==
  /\ journalShim = "pending"
  /\ IF "JournalEntry" \in registerSheetOn
       THEN /\ journalShim' = "skipped"
            /\ UNCHANGED <<sheetClasses, registerSheetOn, hooks, typeGetterOn, wrapperOn, buttons, loader>>
       ELSE /\ journalShim' = "installed"
            /\ sheetClasses' =
                 [d \in (DOMAIN sheetClasses) \cup {"JournalEntry"} |->
                    IF d = "JournalEntry"
                      THEN [t \in {"base"} |->
                              << [id |-> "JournalSheet", default |-> TRUE,
                                  label |-> "JournalSheet",
                                  cls |-> SheetClassOf(sheetClasses, sheetClass,
                                                       redirected, "JournalEntry")] >>]
                      ELSE sheetClasses[d]]
            /\ registerSheetOn' = registerSheetOn \cup {"JournalEntry"}
  /\ last' = [NoCall EXCEPT !.op = "shim"]
  /\ UNCHANGED <<sheetClass, redirected, getSheetClassOn, initDone, apps, nops, hooks, typeGetterOn, wrapperOn, buttons, loader>>

\* Journal.registerSheet(scope, sheetClass, options) of the shim: the host's
\* registerSheet for JournalEntry, no bucket is created.
Journal_registerSheet(id, cls, makeDefault, opt) ==
  /\ "JournalEntry" \in Shimmed
  /\ nops < MaxOps
  /\ sheetClasses' =
       HostRegisterSheet(sheetClasses, "JournalEntry", id, cls, makeDefault, opt)
  /\ last' = Call("register", "JournalEntry", id, cls, makeDefault, opt, "", FALSE)
  /\ nops' = nops + 1
  /\ UNCHANGED <<sheetClass, redirected, registerSheetOn, getSheetClassOn,
                 initDone, apps, journalShim, hooks, typeGetterOn, wrapperOn, buttons, loader>>

\* journalEntry._getSheetClass() of the shim; the type is always "base".
Journal_getSheetClass(override) ==
  /\ "JournalEntry" \in Shimmed
  /\ nops < MaxOps
  /\ last' = [Call("resolve", "JournalEntry", override, "", FALSE,
                   [given |-> TRUE, list |-> <<"base">>],
                   _getSheetClass(sheetClasses, "JournalEntry", "base", override),
                   FALSE) EXCEPT !.id = override]
  /\ nops' = nops + 1
  /\ UNCHANGED <<sheetClasses, sheetClass, redirected, registerSheetOn,
                 getSheetClassOn, initDone, apps, journalShim, hooks, typeGetterOn, wrapperOn, buttons, loader>>

\* --------------------------------------------------------- header buttons

\* sheet.object.type: the getter of setupTypes on a document the registrar
\* initialized, the fixed "base" of the Journal shim, the declared type
\* elsewhere.
ObjectType(doc, flagType, declared) ==
  IF doc \in getSheetClassOn THEN type(flagType, declared)
  ELSE IF doc \in Shimmed THEN "base"
  ELSE declared

\* Array.prototype.includes: some element is the value searched for.
includes(list, searchElement) ==
  \E i \in 1..Len(list) : list[i] = searchElement

\* The argument of buttons.includes in the handler: a function, not a
\* button.
SheetButtonPredicate == "button => button.label == \"Sheet\""

\* Variant: the number of registered sheets is not looked at.
getDocumentSheetHeaderButtons_NoCount(doc, flagType, declared) ==
  /\ initDone
  /\ nops < MaxOps
  /\ LET ty == ObjectType(doc, flagType, declared)
         handled == doc \in documentTypes
         add == handled /\ ~includes(buttons, SheetButtonPredicate)
     IN  /\ buttons' = IF add THEN <<"Sheet">> \o buttons ELSE buttons
         /\ last' = [NoCall EXCEPT !.op = "buttons", !.doc = doc,
                                   !.flag = flagType, !.data = declared,
                                   !.types = <<ty>>, !.threw = FALSE]
  /\ nops' = nops + 1
  /\ UNCHANGED <<sheetClasses, sheetClass, redirected, registerSheetOn,
                 getSheetClassOn, initDone, apps, journalShim, hooks,
                 typeGetterOn, wrapperOn, loader>>

\* The getDocumentSheetHeaderButtons hook for the sheet of a document:
\* nothing for a document that is not in documentTypes; Object.entries of
\* the bucket of the document's type, a TypeError when there is no such
\* bucket; nothing with fewer than two entries; nothing when
\* buttons.includes(...) holds; otherwise the Sheet button is put first.
getDocumentSheetHeaderButtons(doc, flagType, declared) ==
  /\ initDone
  /\ nops < MaxOps
  /\ LET ty == ObjectType(doc, flagType, declared)
         handled == doc \in documentTypes
         throws == handled /\ ~HasBucket(sheetClasses, doc, ty)
         add == /\ handled
                /\ ~throws
                /\ Len(sheetClasses[doc][ty]) >= 2
                /\ ~includes(buttons, SheetButtonPredicate)
     IN  /\ buttons' = IF add THEN <<"Sheet">> \o buttons ELSE buttons
         /\ last' = [NoCall EXCEPT !.op = "buttons", !.doc = doc,
                                   !.flag = flagType, !.data = declared,
                                   !.types = <<ty>>, !.threw = throws]
  /\ nops' = nops + 1
  /\ UNCHANGED <<sheetClasses, sheetClass, redirected, registerSheetOn,
                 getSheetClassOn, initDone, apps, journalShim, hooks,
                 typeGetterOn, wrapperOn, loader>>

\* ------------------------------------------------- the revision with hooks
\* The revision whose init hook is DocumentSheetRegistrar.init: it emits
\* preDocumentSheetRegistrarInit, gives the data classes a type getter and
\* registers the wrapper of DocumentSheetConfig.registerSheet; the ready
\* hook emits documentSheetRegistrarInit.

\* The host of this revision keeps a sheetClasses table for every document,
\* with a bucket for each type the document declares.
HostTables ==
  [d \in DocNames |->
     [t \in (IF Len(metadata_types[d].list) > 0
               THEN SeqToSet(metadata_types[d].list)
               ELSE {BASE_ENTITY_TYPE}) |-> <<>>]]

HookInit ==
  /\ sheetClasses = HostTables
  /\ sheetClass = HostSheetClass
  /\ redirected = {}
  /\ registerSheetOn = HostSheetDocs
  /\ getSheetClassOn = {}
  /\ initDone = FALSE
  /\ apps = {}
  /\ last = NoCall
  /\ nops = 0
  /\ journalShim = "pending"
  /\ hooks = <<>>
  /\ typeGetterOn = {}
  /\ wrapperOn = FALSE
  /\ buttons = <<"Close">>
  /\ loaded = Modules
  /\ initCallbacks = <<>>
  /\ libWrapper = "fallback"
  /\ globalThis_libWrapper = Undefined

\* Documents whose data schema declares a type field (doc.schema.schema.type).
SchemaTyped == {"Actor", "Item", "Macro"}

\* this.settings: the class defines no member of this name.
settings == Undefined

\* Documents a listener of preDocumentSheetRegistrarInit wants enabled.
ListenerDocs == {"JournalEntry", "Macro"}

\* The documents whose setting is true after a listener that does
\* settings[doc] = true for every doc it wants: with no object passed the
\* assignment throws inside the listener and nothing is set.
SetByListener(arg, want) == IF arg = Undefined THEN {} ELSE want

\* The hooks with the given name that were emitted.
Emitted(name) == {i \in 1..Len(hooks) : hooks[i].name = name}

\* Variant: the wrapper is not registered.
init_NoWrapper(want) ==
  /\ ~initDone
  /\ hooks' = Append(hooks, [name |-> "preDocumentSheetRegistrarInit",
                             arg |-> settings, want |-> want,
                             enabled |-> SetByListener(settings, want)])
  /\ typeGetterOn' = typeGetterOn \cup (DocNames \ SchemaTyped)
  /\ wrapperOn' = FALSE
  /\ initDone' = TRUE
  /\ last' = [NoCall EXCEPT !.op = "init"]
  /\ UNCHANGED <<sheetClasses, sheetClass, redirected, registerSheetOn,
                 getSheetClassOn, apps, nops, journalShim, buttons, loader>>

\* DocumentSheetRegistrar.init(), the init hook: the pre-init hook is called
\* with this.settings, setupTypes defines the type getter for every document
\* whose schema has no type, and the wrapper is registered.
init(want) ==
  /\ ~initDone
  /\ hooks' = Append(hooks, [name |-> "preDocumentSheetRegistrarInit",
                             arg |-> settings, want |-> want,
                             enabled |-> SetByListener(settings, want)])
  /\ typeGetterOn' = typeGetterOn \cup (DocNames \ SchemaTyped)
  /\ wrapperOn' = TRUE
  /\ initDone' = TRUE
  /\ last' = [NoCall EXCEPT !.op = "init"]
  /\ UNCHANGED <<sheetClasses, sheetClass, redirected, registerSheetOn,
                 getSheetClassOn, apps, nops, journalShim, buttons, loader>>

\* The host fires the ready event after the init event.
HostFiresReady == initDone

\* What a listener of documentSheetRegistrarInit does: nothing, or one
\* registration through DocumentSheetConfig.registerSheet.
NoRegistration == [doc |-> ""]
ListenerRegistrations ==
  {NoRegistration} \cup
  [doc : {"JournalEntry"}, id : {"A"}, cls : {"v1"}, makeDefault : BOOLEAN,
   opt : JournalTypeOptions]

\* DocumentSheetConfig.registerSheet as a caller finds it: through the
\* wrapper once it is registered, the host's method before.
ThroughWrapper(on, sc, r) ==
  IF on THEN RegisterResult(sc, r.doc, r.id, r.cls, r.makeDefault, r.opt)
  ELSE HostRegisterSheet(sc, r.doc, r.id, r.cls, r.makeDefault, r.opt)

\* The ready hook (Hooks.once): documentSheetRegistrarInit is called, with
\* no argument, and its listener runs.
ready(reg) ==
  /\ HostFiresReady
  /\ Emitted("documentSheetRegistrarInit") = {}
  /\ hooks' = Append(hooks, [name |-> "documentSheetRegistrarInit",
                             arg |-> Undefined, want |-> {}, enabled |-> {}])
  /\ IF reg = NoRegistration
       THEN /\ last' = [NoCall EXCEPT !.op = "ready"]
            /\ UNCHANGED sheetClasses
       ELSE /\ sheetClasses' = ThroughWrapper(wrapperOn, sheetClasses, reg)
            /\ last' = [Call("register", reg.doc, reg.id, reg.cls,
                             reg.makeDefault, reg.opt, "", FALSE)
                          EXCEPT !.hook = "documentSheetRegistrarInit"]
  /\ UNCHANGED <<sheetClass, redirected, registerSheetOn, getSheetClassOn,
                 initDone, apps, nops, journalShim, typeGetterOn, wrapperOn, buttons, loader>>

\* document.data.type after init: the getter flags[name].type || base where
\* setupTypes defined it, the field of the schema elsewhere.
schema_type(getterOn, doc, flagType, declared) ==
  IF doc \in getterOn
    THEN IF ~Falsy(flagType) THEN flagType ELSE BASE_ENTITY_TYPE
    ELSE declared

\* The type of a document is read; a document has a declared type exactly
\* when its schema has the field.
readType(doc, flagType, declared) ==
  /\ initDone
  /\ nops < MaxOps
  /\ (doc \in SchemaTyped) <=> (declared # Undefined)
  /\ last' = [NoCall EXCEPT !.op = "type", !.doc = doc, !.flag = flagType,
                            !.data = declared,
                            !.ret = schema_type(typeGetterOn, doc, flagType,
                                                declared)]
  /\ nops' = nops + 1
  /\ UNCHANGED <<sheetClasses, sheetClass, redirected, registerSheetOn,
                 getSheetClassOn, initDone, apps, journalShim, hooks,
                 typeGetterOn, wrapperOn, buttons, loader>>

\* ------------------------------------------------- scripts and init order

\* Variant: a script registers its own init callback before the
\* libWrapper shim it imports is evaluated.
evaluateModule_OwnHookFirst(callbacks, m) ==
  IF "libWrapperShim" \in SeqToSet(callbacks)
    THEN Append(callbacks, m)
    ELSE <<m>> \o callbacks \o <<"libWrapperShim">>

\* The init callbacks after the evaluation of script m: the script imports
\* the libWrapper shim (the shim's code precedes the Journal shim's hook in
\* the file that holds both), and an imported script is evaluated, once,
\* before the body of the importing one; each body ends with Hooks.once.
evaluateModule(callbacks, m) ==
  IF "libWrapperShim" \in SeqToSet(callbacks)
    THEN Append(callbacks, m)
    ELSE callbacks \o <<"libWrapperShim", m>>

\* The host evaluates the script of a module that is not evaluated yet.
evaluate(m) ==
  /\ m \in Modules \ loaded
  /\ loaded' = loaded \cup {m}
  /\ initCallbacks' = evaluateModule(initCallbacks, m)
  /\ last' = [NoCall EXCEPT !.op = "evaluate", !.doc = m]
  /\ UNCHANGED <<sheetClasses, sheetClass, redirected, registerSheetOn,
                 getSheetClassOn, initDone, apps, nops, journalShim, hooks,
                 typeGetterOn, wrapperOn, buttons, libWrapper,
                 globalThis_libWrapper>>

\* The init callback of the libWrapper shim: the real library if it is
\* loaded and is not a fallback, the fallback class otherwise.
libWrapperShim(global) == IF global = "real" THEN "real" ELSE "fallback"

\* Hooks.callAll("init"), one callback at a time in the order of
\* registration, once every script is evaluated.  A callback that reaches
\* libWrapper.register while the binding is undefined throws there: the
\* Journal shim before it installs anything, the registrar before it has
\* installed anything on the first document.
callInit ==
  /\ loaded = Modules
  /\ initCallbacks # <<>>
  /\ initCallbacks' = Tail(initCallbacks)
  /\ LET cb == Head(initCallbacks) IN
       CASE cb = "libWrapperShim" ->
              /\ libWrapper' = libWrapperShim(globalThis_libWrapper)
              /\ last' = [NoCall EXCEPT !.op = "libWrapperShim"]
              /\ UNCHANGED <<sheetClasses, registerSheetOn, getSheetClassOn,
                             redirected, initDone, journalShim>>
         [] cb = "journal-sheet-shim" ->
              /\ UNCHANGED <<libWrapper, getSheetClassOn, redirected, initDone>>
              /\ IF "JournalEntry" \in registerSheetOn
                   THEN /\ journalShim' = "skipped"
                        /\ last' = [NoCall EXCEPT !.op = "shim"]
                        /\ UNCHANGED <<sheetClasses, registerSheetOn>>
                   ELSE IF libWrapper = Undefined
                     THEN /\ last' = [NoCall EXCEPT !.op = "shim", !.threw = TRUE]
                          /\ UNCHANGED <<sheetClasses, registerSheetOn, journalShim>>
                     ELSE /\ journalShim' = "installed"
                          /\ sheetClasses' =
                               [d \in (DOMAIN sheetClasses) \cup {"JournalEntry"} |->
                                  IF d = "JournalEntry"
                                    THEN [t \in {"base"} |->
                                            << [id |-> "JournalSheet",
                                                default |-> TRUE,
                                                label |-> "JournalSheet",
                                                cls |-> SheetClassOf(sheetClasses,
                                                          sheetClass, redirected,
                                                          "JournalEntry")] >>]
                                    ELSE sheetClasses[d]]
                          /\ registerSheetOn' = registerSheetOn \cup {"JournalEntry"}
                          /\ last' = [NoCall EXCEPT !.op = "shim"]
         [] cb = "document-sheet-registrar" ->
              /\ initDone' = TRUE
              /\ UNCHANGED <<libWrapper, journalShim>>
              /\ IF libWrapper = Undefined
                   THEN /\ last' = [NoCall EXCEPT !.op = "init", !.threw = TRUE]
                        /\ UNCHANGED <<sheetClasses, registerSheetOn,
                                       getSheetClassOn, redirected>>
                   ELSE LET todo == documentTypes \ registerSheetOn IN
                        /\ sheetClasses' =
                             [d \in (DOMAIN sheetClasses) \cup todo |->
                                IF d \in todo
                                  THEN configureSheetClasses(d,
                                         SheetClassOf(sheetClasses, sheetClass,
                                                      redirected, d))
                                  ELSE sheetClasses[d]]
                        /\ registerSheetOn' = registerSheetOn \cup todo
                        /\ getSheetClassOn' = getSheetClassOn \cup todo
                        /\ redirected' = redirected \cup todo
                        /\ last' = [NoCall EXCEPT !.op = "init"]
  /\ UNCHANGED <<sheetClass, apps, nops, hooks, typeGetterOn, wrapperOn,
                 buttons, loaded, globalThis_libWrapper>>

\* ---------------------------------------------------------- specification

Next ==
  \/ initializeDocumentSheets
  \/ \E doc \in CallDocs, id \in SheetIds, cls \in SheetClassValues,
        makeDefault \in BOOLEAN, opt \in TypeOptions :
        \/ registerSheet(doc, id, cls, makeDefault, opt)
        \/ DocumentSheetConfig_registerSheet(doc, id, cls, makeDefault, opt)
  \/ \E doc \in CallDocs, id \in SheetIds, opt \in TypeOptions :
        unregisterSheet(doc, id, opt)
  \/ \E setting \in Settings : updateDefaultSheets(setting)
  \/ \E doc \in RenderDocs : renderSheet(doc)
  \/ \E doc \in DocNames, flagType \in {Undefined, "my-type"},
        dataType \in {Undefined, "script"}, override \in OverrideIds :
        getSheetClass(doc, flagType, dataType, override)

Spec == Init /\ [][Next]_vars

\* Settings for JournalEntry: empty, or a sheet id for one type.
JournalSettings ==
  {<<>>} \cup
  {[d \in {"JournalEntry"} |-> [t \in {ty} |-> id]] :
     ty \in {"base", "my-type"}, id \in SheetIds}

\* The registrar with the Journal shim installed beside it: the two init
\* hooks run in either order, and JournalEntry is the document operated on.
ShimNext ==
  \/ _initializeJournalSheetShim
  \/ initializeDocumentSheets
  \/ \E id \in SheetIds, cls \in SheetClassValues, makeDefault \in BOOLEAN,
        opt \in JournalTypeOptions :
        \/ registerSheet("JournalEntry", id, cls, makeDefault, opt)
        \/ Journal_registerSheet(id, cls, makeDefault, opt)
  \/ \E id \in SheetIds, opt \in JournalTypeOptions :
        unregisterSheet("JournalEntry", id, opt)
  \/ \E flagType \in {Undefined, "", "my-type"}, override \in {"A", Undefined} :
        \/ getSheetClass("JournalEntry", flagType, Undefined, override)
        \/ Journal_getSheetClass(override)
  \/ \E doc \in {"JournalEntry", "Actor"}, flagType \in {Undefined, "my-type"} :
        getDocumentSheetHeaderButtons(doc, flagType, Undefined)
  \/ \E setting \in JournalSettings : updateDefaultSheets(setting)
  \/ \E value \in {"v2"} : setSheetClass("JournalEntry", value)
  \/ callInitializeDocumentSheets

ShimSpec == Init /\ [][ShimNext]_vars

\* Documents the calls of RedirectSpec name: both get the sheetClass
\* accessor; Macro has a bucket besides the base one.
RedirectDocs == {"JournalEntry", "Macro"}

\* Settings naming the base type of one of these documents.
RedirectSettings ==
  {[d \in {doc} |-> [t \in {BASE_ENTITY_TYPE} |-> id]] :
     doc \in RedirectDocs, id \in SheetIds}

\* The registrar with other code assigning CONFIG[doc].sheetClass.
RedirectNext ==
  \/ initializeDocumentSheets
  \/ \E doc \in RedirectDocs, id \in SheetIds, makeDefault \in BOOLEAN :
        registerSheet(doc, id, "v1", makeDefault, NoOptions)
  \/ \E setting \in RedirectSettings : updateDefaultSheets(setting)
  \/ \E doc \in RedirectDocs : setSheetClass(doc, "v2")
  \/ \E doc \in RedirectDocs, dataType \in {Undefined, "script"} :
        getSheetClass(doc, Undefined, dataType, Undefined)

RedirectSpec == Init /\ [][RedirectNext]_vars

\* Before any script of the package is evaluated; globalThis.libWrapper is
\* whatever the other packages of the world have made it: nothing, the
\* real library, or a fallback of another package.
LoadInit ==
  /\ sheetClasses = [d \in HostSheetDocs |-> [t \in {BASE_ENTITY_TYPE} |-> <<>>]]
  /\ sheetClass = HostSheetClass
  /\ redirected = {}
  /\ registerSheetOn = HostSheetDocs
  /\ getSheetClassOn = {}
  /\ initDone = FALSE
  /\ apps = {}
  /\ last = NoCall
  /\ nops = 0
  /\ journalShim = "pending"
  /\ hooks = <<>>
  /\ typeGetterOn = {}
  /\ wrapperOn = FALSE
  /\ buttons = <<"Close">>
  /\ loaded = {}
  /\ initCallbacks = <<>>
  /\ libWrapper = Undefined
  /\ globalThis_libWrapper \in {Undefined, "real", "fallback"}

\* The scripts are evaluated in any order, the init callbacks run, and the
\* installed methods are called.
LoadNext ==
  \/ \E m \in Modules : evaluate(m)
  \/ callInit
  \/ \E doc \in RedirectDocs, id \in SheetIds, makeDefault \in BOOLEAN :
        registerSheet(doc, id, "v1", makeDefault, NoOptions)
  \/ \E id \in SheetIds, makeDefault \in BOOLEAN :
        Journal_registerSheet(id, "v1", makeDefault, NoOptions)
  \/ \E doc \in RedirectDocs, override \in {"A", Undefined} :
        getSheetClass(doc, Undefined, Undefined, override)

LoadSpec == LoadInit /\ [][LoadNext]_vars

\* Documents the calls of HookSpec name.
HookDocs == {"JournalEntry", "Macro"}

\* The revision with hooks: init, ready, and the calls of other modules.
HookNext ==
  \/ \E want \in SUBSET ListenerDocs : init(want)
  \/ \E reg \in ListenerRegistrations : ready(reg)
  \/ \E doc \in HookDocs, id \in SheetIds, cls \in {"v1"},
        makeDefault \in BOOLEAN, opt \in JournalTypeOptions :
        DocumentSheetConfig_registerSheet(doc, id, cls, makeDefault, opt)
  \/ \E doc \in HookDocs, flagType \in {Undefined, "my-type"},
        declared \in {Undefined, "script"} :
        readType(doc, flagType, declared)

HookSpec == HookInit /\ [][HookNext]_vars

\* ------------------------------------------------------------------ claims

\* The bucket a lookup for (doc, t) reads: cfg.sheetClasses[t] || {}.
BucketOf(doc, t) ==
  IF HasBucket(sheetClasses, doc, t) THEN sheetClasses[doc][t] ELSE <<>>

Resolve(doc, t, override) == _getSheetClass(sheetClasses, doc, t, override)

Flagged(bucket) == {i \in 1..Len(bucket) : bucket[i].default}

\* The type a recorded lookup was made for.
LastType == last.types[1]

\* The types of the recorded registration whose bucket holds the id now.
InsertedTypes ==
  {t \in SeqToSet(HostTypes([given |-> last.given, list |-> last.types])) :
     last.id \in Ids(BucketOf(last.doc, t))}

\* C1: a lookup whose requested id is the id of a candidate of the queried
\* bucket returns the view class of exactly that candidate, whatever the
\* default flags and the registration order are; ids are unique in a bucket.
C1_MatchingIdWins ==
  /\ \A doc \in getSheetClassOn, t \in TypeNames :
       LET b == BucketOf(doc, t) IN
       /\ \A i, j \in 1..Len(b) : b[i].id = b[j].id => i = j
       /\ \A i \in 1..Len(b) : Resolve(doc, t, b[i].id) = b[i].cls
  /\ (last.op = "resolve" /\ last.id \in Ids(BucketOf(last.doc, LastType)))
       => \E i \in 1..Len(BucketOf(last.doc, LastType)) :
            /\ BucketOf(last.doc, LastType)[i].id = last.id
            /\ BucketOf(last.doc, LastType)[i].cls = last.ret

\* A lookup by id in a bucket created by registration, where another
\* candidate with another view class is flagged default and came first.
C1_Witness ==
  /\ last.op = "resolve" /\ last.doc = "Macro" /\ LastType = "my-type"
  /\ LET b == BucketOf("Macro", "my-type") IN
       /\ Len(b) = 2
       /\ b[1].default /\ ~b[2].default
       /\ b[1].cls # b[2].cls
       /\ last.id = b[2].id
       /\ last.ret = b[2].cls

\* C2: a lookup returns "not found" or the view class of a candidate that is
\* in the queried bucket, also when the override names a candidate that is
\* registered under other types only.
C2_OnlyFromQueriedBucket ==
  /\ \A doc \in getSheetClassOn, t \in TypeNames, o \in OverrideIds :
       \/ Resolve(doc, t, o) = Null
       \/ \E i \in 1..Len(BucketOf(doc, t)) :
            BucketOf(doc, t)[i].cls = Resolve(doc, t, o)
  /\ last.op = "resolve" =>
       \/ last.ret = Null
       \/ \E i \in 1..Len(BucketOf(last.doc, LastType)) :
            BucketOf(last.doc, LastType)[i].cls = last.ret

\* A lookup in the base bucket whose override names a candidate that is in
\* another bucket of the document only, with a view class of its own.
C2_Witness ==
  /\ last.op = "resolve" /\ last.doc = "Macro" /\ LastType = "base"
  /\ last.id \in SheetIds
  /\ last.id \notin Ids(BucketOf("Macro", "base"))
  /\ last.id \in Ids(BucketOf("Macro", "my-type"))
  /\ Entry(BucketOf("Macro", "my-type"), last.id).cls # last.ret
  /\ last.ret = "core"

\* An id no candidate of the bucket has.
Unmatched(doc, t) == {o \in OverrideIds : o \notin Ids(BucketOf(doc, t))}

C5_MakeDefaultWins ==
  (last.op = "register" /\ ~last.threw /\ last.makeDefault) =>
    \A t \in InsertedTypes : \A o \in Unmatched(last.doc, t) :
      Resolve(last.doc, t, o) = last.cls

\* C6: a lookup in an empty bucket, or for a type without a bucket, returns
\* "not found" for every override id; the table it reads exists for every
\* document the lookup is installed on.
C6_EmptyBucketNotFound ==
  /\ \A doc \in getSheetClassOn :
       /\ HasTable(sheetClasses, doc)
       /\ \A t \in TypeNames :
            Len(BucketOf(doc, t)) = 0 =>
              \A o \in OverrideIds : Resolve(doc, t, o) = Null
  /\ (last.op = "resolve" /\ Len(BucketOf(last.doc, LastType)) = 0)
       => (last.ret = Null /\ ~last.threw)

\* A lookup in a bucket that exists and is empty.
C6_Witness ==
  /\ last.op = "resolve" /\ last.ret = Null
  /\ HasBucket(sheetClasses, last.doc, LastType)
  /\ Len(BucketOf(last.doc, LastType)) = 0

\* C7 as stated: after setDefault(type, subtype, id) exactly one candidate
\* of the bucket is flagged, the one with the given id.
C7_Original ==
  (last.op = "setDefault" /\ HasBucket(sheetClasses, last.doc, LastType)) =>
    LET b == BucketOf(last.doc, LastType) IN
    /\ Cardinality(Flagged(b)) = 1
    /\ \A i \in Flagged(b) : b[i].id = last.id

\* C7 (amended): after setDefault(type, subtype, id) with the id of a
\* candidate of the bucket, exactly that candidate is flagged and every
\* sibling is not.
C7_ExactlyOneDefault ==
  (/\ last.op = "setDefault"
   /\ last.doc \in UpdatedDocuments
   /\ HasBucket(sheetClasses, last.doc, LastType)
   /\ last.id \in Ids(BucketOf(last.doc, LastType))) =>
    LET b == BucketOf(last.doc, LastType) IN
    /\ Cardinality(Flagged(b)) = 1
    /\ \A i \in 1..Len(b) : b[i].default <=> (b[i].id = last.id)

\* setDefault moved the flag to a candidate that is not the first of a
\* bucket of two.
C7_Witness ==
  /\ last.op = "setDefault"
  /\ HasBucket(sheetClasses, last.doc, LastType)
  /\ LET b == BucketOf(last.doc, LastType) IN
       /\ Len(b) = 2
       /\ b[2].id = last.id
       /\ b[2].default /\ ~b[1].default

\* The candidate the fallback of a lookup selects in a non-empty bucket.
FallbackOf(b) ==
  IF Flagged(b) # {}
    THEN b[CHOOSE i \in Flagged(b) : \A j \in Flagged(b) : i <= j].cls
    ELSE b[Len(b)].cls

\* C8: after unregister the id is in none of the named buckets, and as long
\* as an id is not in a bucket a lookup requesting it takes the fallback
\* over the candidates that remain, or reports "not found" when none does.
C8_UnregisteredNotReturned ==
  /\ (last.op = "unregister") =>
       \A t \in SeqToSet(HostTypes([given |-> last.given, list |-> last.types])) :
         last.id \notin Ids(BucketOf(last.doc, t))
  /\ \A doc \in getSheetClassOn, t \in TypeNames, id \in SheetIds :
       id \notin Ids(BucketOf(doc, t)) =>
         Resolve(doc, t, id) =
           IF Len(BucketOf(doc, t)) = 0 THEN Null ELSE FallbackOf(BucketOf(doc, t))

\* An unregister call that left other candidates in a named bucket.
C8_Witness ==
  /\ last.op = "unregister" /\ last.given /\ last.types = <<"my-type">>
  /\ HasBucket(sheetClasses, last.doc, "my-type")
  /\ Len(BucketOf(last.doc, "my-type")) = 1
  /\ last.id \notin Ids(BucketOf(last.doc, "my-type"))

C10_UnknownTypeSilent ==
  [][(last'.op = "register" /\ ~HasTable(sheetClasses, last'.doc)) =>
       (~last'.threw /\ sheetClasses' = sheetClasses)]_vars

\* C11: an unregister call raises no error; it removes the id from every
\* named bucket that holds it, keeping the other candidates and their
\* order, and leaves every bucket without the id, every bucket that is not
\* named and every other document's table unchanged.
C11_UnregisterFrame ==
  [][last'.op = "unregister" =>
      LET named == SeqToSet(HostTypes([given |-> last'.given,
                                       list |-> last'.types]))
      IN  /\ ~last'.threw
          /\ DOMAIN sheetClasses' = DOMAIN sheetClasses
          /\ \A d \in DOMAIN sheetClasses :
               /\ DOMAIN sheetClasses'[d] = DOMAIN sheetClasses[d]
               /\ \A t \in DOMAIN sheetClasses[d] :
                    LET old == sheetClasses[d][t]
                        new == sheetClasses'[d][t]
                    IN  IF d = last'.doc /\ t \in named /\ last'.id \in Ids(old)
                          THEN /\ Len(new) = Len(old) - 1
                               /\ Ids(new) = Ids(old) \ {last'.id}
                               /\ \A i, j \in 1..Len(new) :
                                    i < j =>
                                      \E k, l \in 1..Len(old) :
                                        k < l /\ old[k] = new[i] /\ old[l] = new[j]
                               /\ \A i \in 1..Len(new) :
                                    \E k \in 1..Len(old) : old[k] = new[i]
                          ELSE new = old
     ]_vars

\* An unregister call for one type took the id out of that bucket, which
\* keeps another candidate, while a bucket that was not named still holds
\* the id.
C11_Witness ==
  /\ last.op = "unregister" /\ last.given /\ last.types = <<"my-type">>
  /\ HasBucket(sheetClasses, last.doc, "my-type")
  /\ last.id \notin Ids(BucketOf(last.doc, "my-type"))
  /\ last.id \in Ids(BucketOf(last.doc, "script"))
  /\ Len(BucketOf(last.doc, "script")) = 2

C13_InitSkipsRegistered ==
  [][(~initDone /\ initDone') =>
      \A d \in documentTypes \cap registerSheetOn :
        /\ d \in registerSheetOn'
        /\ Shimmed' = Shimmed
        /\ HasTable(sheetClasses', d) <=> HasTable(sheetClasses, d)
        /\ HasTable(sheetClasses, d) => sheetClasses'[d] = sheetClasses[d]
        /\ sheetClass'[d] = sheetClass[d]
        /\ d \in redirected' <=> d \in redirected
        /\ d \in getSheetClassOn' <=> d \in getSheetClassOn
     ]_vars

\* The registrar's init hook ran after the Journal shim and after a sheet
\* was registered through the shim: JournalEntry keeps the shim's table with
\* that sheet, while Macro was initialized.
C13_Witness ==
  /\ initDone /\ last.op = "init"
  /\ "JournalEntry" \in Shimmed
  /\ "JournalEntry" \in documentTypes \ (getSheetClassOn \cup redirected)
  /\ Ids(BucketOf("JournalEntry", "base")) = {"JournalSheet", "A"}
  /\ "Macro" \in getSheetClassOn \cap redirected

\* The type the stated precedence gives: the flag if set, otherwise the
\* declared data type if set, otherwise the base type.
Precedence(flagType, declared) ==
  IF ~Falsy(flagType) THEN flagType
  ELSE IF ~Falsy(declared) THEN declared
  ELSE BASE_ENTITY_TYPE

\* C14: the type of a document, which is the key of the bucket a lookup
\* reads, is the type flag of the registrar if it is set, otherwise the
\* declared data type if it is set, otherwise the base type.
C14_TypePrecedence ==
  /\ last.op = "type" => last.ret = Precedence(last.flag, last.data)
  /\ (last.op = "resolve" /\ last.doc \in getSheetClassOn) =>
       /\ LastType = Precedence(last.flag, last.data)
       /\ last.ret = Resolve(last.doc, Precedence(last.flag, last.data), last.id)

C16_AtMostOneSheetButton ==
  Cardinality({i \in 1..Len(buttons) : buttons[i] = "Sheet"}) <= 1

\* C17: a lookup of the registrar displays the UI warning exactly when it
\* returns "not found", that is when no sheet is registered for the
\* document and its type; a lookup that returns a candidate displays none.
C17_WarnsIffNotFound ==
  (last.op = "resolve" /\ last.doc \in getSheetClassOn) =>
    /\ last.warned <=> (last.ret = Null)
    /\ last.warned <=> (Len(BucketOf(last.doc, LastType)) = 0)

\* A lookup for an artificial type no sheet was registered for, on a
\* document that has sheets for other types, warned and found nothing.
C17_Witness ==
  /\ last.op = "resolve" /\ last.doc = "Macro" /\ last.flag = "my-type"
  /\ last.warned /\ last.ret = Null
  /\ Len(BucketOf("Macro", "script")) = 2

\* C18: documentSheetRegistrarInit is emitted at most once, and only when
\* the init hook of the registrar has completed: the type getters are
\* defined and the wrapper of DocumentSheetConfig.registerSheet is
\* registered, so that a registration made by a listener of the hook has
\* the effect of the wrapped call.
C18_InitHookAfterInit ==
  [][/\ Cardinality({i \in 1..Len(hooks') :
                       hooks'[i].name = "documentSheetRegistrarInit"}) <= 1
     /\ (/\ Len(hooks') = Len(hooks) + 1
         /\ hooks'[Len(hooks')].name = "documentSheetRegistrarInit") =>
          /\ initDone
          /\ wrapperOn
          /\ typeGetterOn = DocNames \ SchemaTyped
          /\ Emitted("preDocumentSheetRegistrarInit") # {}
          /\ last'.hook = "documentSheetRegistrarInit" =>
               sheetClasses' =
                 RegisterResult(sheetClasses, last'.doc, last'.id, last'.cls,
                                last'.makeDefault,
                                [given |-> last'.given, list |-> last'.types])
    ]_vars

\* A listener of documentSheetRegistrarInit registered a sheet for an
\* artificial type: the bucket, which only the wrapper creates, holds it.
C18_Witness ==
  /\ last.op = "register" /\ last.hook = "documentSheetRegistrarInit"
  /\ last.doc = "JournalEntry" /\ last.types = <<"my-type">>
  /\ Ids(BucketOf("JournalEntry", "my-type")) = {"A"}
  /\ Cardinality(Emitted("documentSheetRegistrarInit")) = 1

\* The documents whose setting a listener of preDocumentSheetRegistrarInit
\* set to true.
EnabledDocs ==
  UNION {hooks[i].enabled : i \in Emitted("preDocumentSheetRegistrarInit")}

\* C19: registration is made available by initialization only for the
\* documents whose setting a listener of preDocumentSheetRegistrarInit set
\* to true: a registration through the wrapper that takes effect names an
\* enabled document.
C19_OnlyEnabledDocuments ==
  (/\ last.op = "register" /\ ~last.threw
   /\ wrapperOn
   /\ InsertedTypes # {}) => last.doc \in EnabledDocs

\* C20: each of the two hooks passes an object to its listeners: the
\* settings to preDocumentSheetRegistrarInit, the data about the enabled
\* documents to documentSheetRegistrarInit.
C20_HooksPassAnObject ==
  \A i \in 1..Len(hooks) : hooks[i].arg # Undefined

\* C21: in every step that is not a register or unregister call for the
\* candidate's own id, a candidate that is in a bucket before and after the
\* step keeps its id, its label and its view class; the steps include
\* setDefault, lookups and assignments to CONFIG[doc].sheetClass.
C21_CandidateImmutable ==
  [][\A d \in (DOMAIN sheetClasses) \cap (DOMAIN sheetClasses') :
       \A t \in (DOMAIN sheetClasses[d]) \cap (DOMAIN sheetClasses'[d]) :
         \A i \in 1..Len(sheetClasses[d][t]) :
           LET c == sheetClasses[d][t][i] IN
           (/\ c.id \in Ids(sheetClasses'[d][t])
            /\ ~(/\ last'.op \in {"register", "unregister"}
                 /\ last'.doc = d /\ last'.id = c.id)) =>
             LET e == Entry(sheetClasses'[d][t], c.id) IN
             e.id = c.id /\ e.label = c.label /\ e.cls = c.cls
    ]_vars

\* Which buckets exist and which candidate ids each of them holds.
Membership(sc) ==
  [d \in DOMAIN sc |-> [t \in DOMAIN sc[d] |-> Ids(sc[d][t])]]

\* C22: a table, once created, is never removed or replaced and none of its
\* buckets is removed, and only register and unregister calls change which
\* buckets exist and which ids they hold: lookups, setDefault, header-button
\* handling, assignments to sheetClass and the init hooks leave the
\* membership of every existing table as it is.
C22_MembershipOnlyByRegistration ==
  [][/\ \A d \in DOMAIN sheetClasses :
          /\ d \in DOMAIN sheetClasses'
          /\ DOMAIN sheetClasses[d] \subseteq DOMAIN sheetClasses'[d]
     /\ last'.op \notin {"register", "unregister"} =>
          \A d \in DOMAIN sheetClasses :
            Membership(sheetClasses')[d] = Membership(sheetClasses)[d]
     /\ last'.op \in {"resolve", "setDefault", "buttons", "assign"} =>
          Membership(sheetClasses') = Membership(sheetClasses)
    ]_vars

\* setDefault named a type that has no bucket while the base bucket holds
\* two candidates: no bucket was created.
C22_Witness ==
  /\ last.op = "setDefault" /\ last.doc = "JournalEntry"
  /\ last.types = <<"my-type">>
  /\ ~HasBucket(sheetClasses, "JournalEntry", "my-type")
  /\ Len(BucketOf("JournalEntry", "base")) = 2

BuiltIn(sc, d) ==
  {i \in 1..Len(sc[d][BASE_ENTITY_TYPE]) : sc[d][BASE_ENTITY_TYPE][i].id = d}

\* The candidates of the base bucket other than the built-in one that are
\* flagged default.
OtherDefaults(sc, d) ==
  {i \in 1..Len(sc[d][BASE_ENTITY_TYPE]) :
     /\ sc[d][BASE_ENTITY_TYPE][i].id # d
     /\ sc[d][BASE_ENTITY_TYPE][i].default}

\* What an assignment to the accessor leaves and what a read gives after it.
AssignReadAndFrame(d) ==
  /\ SheetClassOf(sheetClasses', sheetClass', redirected', d)
       = Entry(sheetClasses'[d][BASE_ENTITY_TYPE], d).cls
  /\ SheetClassOf(sheetClasses', sheetClass', redirected', d) = last'.cls
  /\ \A t \in DOMAIN sheetClasses[d] \ {BASE_ENTITY_TYPE} :
       sheetClasses'[d][t] = sheetClasses[d][t]
  /\ \A e \in DOMAIN sheetClasses \ {d} : sheetClasses'[e] = sheetClasses[e]

\* C24 as stated: after an assignment of v to CONFIG[doc].sheetClass of a
\* document with the accessor whose built-in candidate is in the base
\* bucket, a read yields the class of that candidate, which is v, the
\* built-in candidates of the other buckets are as before, and a lookup for
\* the base type without an override returns v whenever no other candidate
\* of the base bucket is flagged default.
C24_Original ==
  [][(/\ last'.op = "assign"
      /\ last'.doc \in redirected
      /\ BuiltIn(sheetClasses, last'.doc) # {}) =>
       LET d == last'.doc IN
       /\ AssignReadAndFrame(d)
       /\ OtherDefaults(sheetClasses', d) = {} =>
            _getSheetClass(sheetClasses', d, BASE_ENTITY_TYPE, Undefined)
              = last'.cls
    ]_vars

\* C24 (amended): as stated, except that the lookup for the base type
\* without an override returns v when no other candidate of the base bucket
\* is flagged default and the built-in candidate is itself flagged default
\* or is the only candidate of the bucket.
C24_AssignmentReachesBuiltIn ==
  [][(/\ last'.op = "assign"
      /\ last'.doc \in redirected
      /\ BuiltIn(sheetClasses, last'.doc) # {}) =>
       LET d == last'.doc
           b == sheetClasses'[d][BASE_ENTITY_TYPE]
       IN
       /\ AssignReadAndFrame(d)
       /\ (/\ OtherDefaults(sheetClasses', d) = {}
           /\ \/ Entry(b, d).default
              \/ Len(b) = 1) =>
            _getSheetClass(sheetClasses', d, BASE_ENTITY_TYPE, Undefined)
              = last'.cls
    ]_vars

\* An assignment for Macro whose base bucket holds the flagged built-in
\* sheet and a registered one: the base lookup gives the assigned class,
\* the built-in sheet of the script bucket keeps the host's class.
C24_Witness ==
  /\ last.op = "assign" /\ last.doc = "Macro" /\ last.cls = "v2"
  /\ "Macro" \in redirected
  /\ Len(BucketOf("Macro", "base")) = 2
  /\ Entry(BucketOf("Macro", "base"), "Macro").default
  /\ Resolve("Macro", "base", Undefined) = "v2"
  /\ Entry(BucketOf("Macro", "script"), "Macro").cls = "core"

\* C25: a registration through the wrapper for a document with a table
\* takes as type list the types of the options when given, otherwise the
\* declared types of the document class, otherwise the base type; it adds
\* an empty bucket for every listed type without one and no other bucket,
\* and apart from that the registry is what the host's registerSheet makes
\* of it when called with the caller's arguments: buckets the host does not
\* write, and the tables of other documents, are as before.
C25_WrapperFrame ==
  [][(last'.op = "register" /\ HasTable(sheetClasses, last'.doc)) =>
      LET d == last'.doc
          opt == [given |-> last'.given, list |-> last'.types]
          types == IF opt.given THEN SeqToSet(opt.list)
                   ELSE IF metadata_types[d].given
                     THEN SeqToSet(metadata_types[d].list)
                     ELSE {BASE_ENTITY_TYPE}
          cand == [id |-> last'.id, default |-> last'.makeDefault,
                   label |-> last'.id, cls |-> last'.cls]
          written == SeqToSet(HostTypes(opt))
      IN  /\ ~last'.threw
          /\ DOMAIN sheetClasses' = DOMAIN sheetClasses
          /\ DOMAIN sheetClasses'[d] = DOMAIN sheetClasses[d] \cup types
          /\ \A t \in DOMAIN sheetClasses'[d] :
               LET before == IF t \in DOMAIN sheetClasses[d]
                               THEN sheetClasses[d][t] ELSE <<>>
               IN  sheetClasses'[d][t] =
                     IF t \in written THEN Put(before, cand) ELSE before
          /\ \A e \in DOMAIN sheetClasses \ {d} :
               sheetClasses'[e] = sheetClasses[e]
     ]_vars

\* A registration without options.types for Macro, which declares the type
\* script: the candidate is in the base bucket only, no bucket was added,
\* and the bucket an earlier registration created is still there.
C25_Witness ==
  /\ last.op = "register" /\ last.doc = "Macro" /\ ~last.given
  /\ last.id \in Ids(BucketOf("Macro", "base"))
  /\ last.id \notin Ids(BucketOf("Macro", "script"))
  /\ DOMAIN sheetClasses["Macro"] = {"base", "script", "my-type"}
  /\ Len(BucketOf("Macro", "my-type")) = 1

\* C26: updateDefaultSheets with an empty setting changes neither the
\* registry nor the open applications nor anything else of the registrar;
\* with another setting it adds and removes no bucket, leaves every bucket
\* the setting does not name exactly as it was, and leaves the named bucket
\* as it was when the requested id is not the id of one of its candidates.
C26_SetDefaultFrame ==
  [][last'.op = "setDefault" =>
      IF last'.doc = ""
        THEN UNCHANGED <<sheetClasses, sheetClass, apps, redirected,
                         registerSheetOn, getSheetClassOn>>
        ELSE /\ DOMAIN sheetClasses' = DOMAIN sheetClasses
             /\ \A d \in DOMAIN sheetClasses :
                  /\ DOMAIN sheetClasses'[d] = DOMAIN sheetClasses[d]
                  /\ \A t \in DOMAIN sheetClasses[d] :
                       (\/ d # last'.doc
                        \/ t # last'.types[1]
                        \/ last'.id \notin Ids(sheetClasses[d][t])) =>
                         sheetClasses'[d][t] = sheetClasses[d][t]
             /\ ~HasBucket(sheetClasses, last'.doc, last'.types[1]) =>
                  sheetClasses' = sheetClasses
     ]_vars

\* setDefault requested an id the named bucket does not hold, while the
\* bucket holds two candidates and a flag, and the id is a candidate of
\* another bucket of the document.
C26_Witness ==
  /\ last.op = "setDefault" /\ last.doc = "Macro" /\ last.types = <<"script">>
  /\ last.id \notin Ids(BucketOf("Macro", "script"))
  /\ Len(BucketOf("Macro", "script")) = 2
  /\ Flagged(BucketOf("Macro", "script")) # {}
  /\ last.id \in Ids(BucketOf("Macro", "my-type"))

\* C27: after updateDefaultSheets with a setting that is not empty, no
\* document of Actor, Item or one of documentTypes has an open sheet
\* application, whether or not the setting names its document type.
C27_AllSheetsClosed ==
  (last.op = "setDefault" /\ last.doc # "") =>
    apps \cap ({"Actor", "Item"} \cup documentTypes) = {}

\* updateDefaultSheets with a setting naming Macro closed the open sheets
\* of an Actor and of a Macro.
C27_Witness ==
  /\ last.op = "setDefault" /\ last.doc = "Macro"
  /\ last.closed = {"Actor", "Macro"}
  /\ apps = {}

\* C28: a lookup leaves the registry as it is, also when it takes the last
\* candidate of a bucket without a flagged default, and a lookup that
\* repeats the lookup before it returns what that one returned.
C28_ResolveIsPure ==
  [][last'.op = "resolve" =>
       /\ sheetClasses' = sheetClasses
       /\ last'.again => (last'.ret = last.ret /\ last'.warned = last.warned)
    ]_vars

\* A lookup repeated the lookup before it in a bucket without a flagged
\* default: both took the last candidate, which is still in the bucket.
C28_Witness ==
  /\ last.op = "resolve" /\ last.again
  /\ LET b == BucketOf(last.doc, LastType) IN
       /\ Len(b) > 0
       /\ Flagged(b) = {}
       /\ last.id \notin Ids(b)
       /\ last.ret = b[Len(b)].cls

\* C29: no run of the registrar's initialization and no run of the Journal
\* shim's init callback touches the table of a document whose collection
\* already has a registerSheet method, and a collection keeps that method:
\* a table is set up by initialization at most once, and the candidates
\* registered since are still there after a later run.
C29_InitializedOnce ==
  [][\A d \in (DOMAIN sheetClasses) \cap registerSheetOn :
       /\ d \in registerSheetOn'
       /\ last'.op \in {"init", "shim"} =>
            /\ HasTable(sheetClasses', d)
            /\ sheetClasses'[d] = sheetClasses[d]
    ]_vars

\* initializeDocumentSheets ran again after a sheet was registered for
\* JournalEntry, which the first run had initialized: the sheet is still in
\* the base bucket, next to the built-in one.
C29_Witness ==
  /\ last.op = "init" /\ nops >= 2
  /\ "JournalEntry" \in redirected
  /\ Ids(BucketOf("JournalEntry", "base")) = {"JournalEntry", "A"}

\* The callbacks that call libWrapper.register.
Registering == {"journal-sheet-shim", "document-sheet-registrar"}

\* C30: in the list of init callbacks the one of the libWrapper shim comes
\* before every callback that calls libWrapper.register; when it has run
\* the binding is the real library if that is loaded and no fallback, and
\* the fallback class otherwise; and the binding is never undefined when
\* a callback reaches libWrapper.register: none of them throws there.
C30_ShimRunsFirst ==
  /\ \A i \in 1..Len(initCallbacks) :
       initCallbacks[i] \in Registering =>
         \/ libWrapper # Undefined
         \/ \E j \in 1..(i - 1) : initCallbacks[j] = "libWrapperShim"
  /\ libWrapper # Undefined =>
       libWrapper = IF globalThis_libWrapper = "real" THEN "real" ELSE "fallback"
  /\ last.op \in {"init", "shim"} => (~last.threw /\ libWrapper # Undefined)

\* The registrar's script was evaluated first and its callback has run,
\* after the shim's and before the Journal shim's, with the real library.
C30_Witness ==
  /\ last.op = "init" /\ ~last.threw
  /\ libWrapper = "real"
  /\ initCallbacks = <<"journal-sheet-shim">>
  /\ "Macro" \in getSheetClassOn

====
